---- MODULE Spec2Model ----
(***************************************************************************)
(* Physical expressions of the query engine                                *)
(* (src/physical_plan/physical_expressions.rs): column references,         *)
(* literals, the comparison nodes (Eq, Neq), the arithmetic nodes (Add,    *)
(* Sub, Mul, Div) and the Max / Min accumulators.                          *)
(*                                                                         *)
(* Three specifications share the variables:                               *)
(*   Spec      the life of one accumulator: create, accumulate*, final     *)
(*   SpecNode  one binary node applied to the results of its two children  *)
(*   SpecTree  an expression tree built bottom-up and evaluated on a batch *)
(***************************************************************************)
EXTENDS Integers, Sequences, FiniteSets, TLC

VARIABLES
    build,      \* "debug" (overflow checks on) or "release" (wrapping)
    acc,        \* the accumulator: lifecycle, kind, value, index
    log,        \* what the accumulate calls so far were given and returned
    final,      \* what final_value returned
    call,       \* SpecNode: the node kind and the two child results
    result,     \* SpecNode: what evaluate returned
    expr,       \* SpecTree: the expression tree
    steps,      \* SpecTree: how many nodes were put on top of the leaf
    value       \* SpecTree: what evaluate returned on the batch

vars == <<build, acc, log, final, call, result, expr, steps, value>>

(***************************************************************************)
(* Option<T>, Result<T, Error> and a panic (the thread unwinds: no value   *)
(* is returned).                                                           *)
(***************************************************************************)
None == <<>>
Some(v) == <<v>>
IsSome(o) == Len(o) = 1
Unwrap(o) == o[1]

Ok(v) == [tag |-> "Ok", val |-> v]
Err(e) == [tag |-> "Err", err |-> e]
Panic == [tag |-> "Panic"]
IsOk(r) == r.tag = "Ok"
IsErr(r) == r.tag = "Err"

Idle == [tag |-> "Idle"]

(***************************************************************************)
(* i32.  The arithmetic below never leaves the 32-bit range itself.        *)
(***************************************************************************)
I32Max == 2147483647
I32Min == -I32Max - 1

AddOverflows(a, b) ==
    \/ b > 0 /\ a > I32Max - b
    \/ b < 0 /\ a < I32Min - b

WrapAdd(a, b) ==
    IF b > 0 /\ a > I32Max - b THEN I32Min + (a - (I32Max - b) - 1)
    ELSE IF b < 0 /\ a < I32Min - b THEN I32Max - (((I32Min - b) - 1) - a)
    ELSE a + b

SubOverflows(a, b) ==
    \/ b < 0 /\ a > I32Max + b
    \/ b > 0 /\ a < I32Min + b

WrapSub(a, b) ==
    IF b < 0 /\ a > I32Max + b THEN I32Min + ((a - 1) - (I32Max + b))
    ELSE IF b > 0 /\ a < I32Min + b THEN I32Max - ((I32Min + b) - a - 1)
    ELSE a - b

Abs(a) == IF a < 0 THEN -a ELSE a

MulOverflows(a, b) ==
    IF a = 0 \/ b = 0 \/ a = 1 \/ b = 1 THEN FALSE
    ELSE IF a = -1 THEN b = I32Min
    ELSE IF b = -1 THEN a = I32Min
    ELSE IF a = I32Min \/ b = I32Min THEN TRUE
    ELSE IF (a < 0) = (b < 0) THEN Abs(a) > I32Max \div Abs(b)
    ELSE Abs(a) > (I32Max \div Abs(b))
                  + (IF I32Max % Abs(b) = Abs(b) - 1 THEN 1 ELSE 0)

\* a * b modulo 2^32 as an i32, from 16-bit and 8-bit limbs so that no
\* partial product leaves the 32-bit range.
Shl16(v) == IF v < 32768 THEN v * 65536 ELSE (v - 65536) * 65536
Shl8(p) == IF p < 8388608 THEN p * 256 ELSE (p - 16777216) * 256

WrapMul(a, b) ==
    LET al == a % 65536
        ah == a \div 65536
        bl == b % 65536
        bh == b \div 65536
        p0 == al * (bl % 256)
        p1 == al * (bl \div 256)
        m == (((ah * bl) % 65536) + ((al * bh) % 65536)) % 65536
    IN WrapAdd(WrapAdd(p0, Shl8(p1)), Shl16(m))

\* Rust's / on i32 truncates towards zero; b # 0 and not (I32Min, -1).
TruncDivPos(a, b) ==
    LET q == a \div b
    IN IF a < 0 /\ a % b # 0 THEN q + 1 ELSE q

TruncDiv(a, b) ==
    IF b > 0 THEN TruncDivPos(a, b)
    ELSE IF b = I32Min THEN (IF a = I32Min THEN 1 ELSE 0)
    ELSE -TruncDivPos(a, -b)

\* std::ops::{Add, Sub, Mul, Div} on i32: None when the operation panics.
\* Overflow of + - * panics when the build checks overflow and wraps
\* otherwise; division by zero and I32Min / -1 panic in every build.
I32Op(op, a, b) ==
    CASE op = "add" -> IF AddOverflows(a, b)
                       THEN (IF build = "debug" THEN None ELSE Some(WrapAdd(a, b)))
                       ELSE Some(a + b)
      [] op = "sub" -> IF SubOverflows(a, b)
                       THEN (IF build = "debug" THEN None ELSE Some(WrapSub(a, b)))
                       ELSE Some(a - b)
      [] op = "mul" -> IF MulOverflows(a, b)
                       THEN (IF build = "debug" THEN None ELSE Some(WrapMul(a, b)))
                       ELSE Some(a * b)
      [] op = "div" -> IF b = 0 \/ (a = I32Min /\ b = -1)
                       THEN None
                       ELSE Some(TruncDiv(a, b))

(***************************************************************************)
(* f64.  A value is NaN, an infinity or a finite signed rational (the zero *)
(* keeps its sign).  The inputs of the model are chosen so that every      *)
(* finite result is exact in binary64; rounding is not modelled.           *)
(***************************************************************************)
RECURSIVE Gcd(_, _)
Gcd(a, b) == IF b = 0 THEN a ELSE Gcd(b, a % b)

FNaN == [cls |-> "nan", neg |-> FALSE, num |-> 0, den |-> 1]
FInf(neg) == [cls |-> "inf", neg |-> neg, num |-> 1, den |-> 1]
FFin(neg, num, den) ==
    LET g == Gcd(num, den)
    IN [cls |-> "fin", neg |-> neg, num |-> num \div g, den |-> den \div g]
F64(n) == FFin(n < 0, Abs(n), 1)
FIsZero(a) == a.cls = "fin" /\ a.num = 0
FSigned(a) == IF a.neg THEN -a.num ELSE a.num

FNeg(a) == IF a.cls = "nan" THEN a ELSE [a EXCEPT !.neg = ~a.neg]

FAdd(a, b) ==
    IF a.cls = "nan" \/ b.cls = "nan" THEN FNaN
    ELSE IF a.cls = "inf" /\ b.cls = "inf"
         THEN (IF a.neg = b.neg THEN a ELSE FNaN)
    ELSE IF a.cls = "inf" THEN a
    ELSE IF b.cls = "inf" THEN b
    ELSE LET n == FSigned(a) * b.den + FSigned(b) * a.den
         IN IF n = 0 THEN FFin(a.neg /\ b.neg, 0, 1)
            ELSE FFin(n < 0, Abs(n), a.den * b.den)

FSub(a, b) == FAdd(a, FNeg(b))

FMul(a, b) ==
    IF a.cls = "nan" \/ b.cls = "nan" THEN FNaN
    ELSE IF (a.cls = "inf" /\ FIsZero(b)) \/ (FIsZero(a) /\ b.cls = "inf") THEN FNaN
    ELSE IF a.cls = "inf" \/ b.cls = "inf" THEN FInf(a.neg # b.neg)
    ELSE FFin(a.neg # b.neg, a.num * b.num, a.den * b.den)

FDiv(a, b) ==
    IF a.cls = "nan" \/ b.cls = "nan" THEN FNaN
    ELSE IF a.cls = "inf" /\ b.cls = "inf" THEN FNaN
    ELSE IF a.cls = "inf" THEN FInf(a.neg # b.neg)
    ELSE IF b.cls = "inf" THEN FFin(a.neg # b.neg, 0, 1)
    ELSE IF FIsZero(b) THEN (IF FIsZero(a) THEN FNaN ELSE FInf(a.neg # b.neg))
    ELSE FFin(a.neg # b.neg, a.num * b.den, a.den * b.num)

\* PartialOrd / PartialEq on f64: every comparison with NaN is false and
\* the two zeros are equal.
FLt(a, b) ==
    IF a.cls = "nan" \/ b.cls = "nan" THEN FALSE
    ELSE IF a.cls = "inf" THEN a.neg /\ ~(b.cls = "inf" /\ b.neg)
    ELSE IF b.cls = "inf" THEN ~b.neg
    ELSE FSigned(a) * b.den < FSigned(b) * a.den

FGt(a, b) == FLt(b, a)

FEq(a, b) ==
    /\ a.cls # "nan"
    /\ b.cls # "nan"
    /\ ~FLt(a, b)
    /\ ~FLt(b, a)

\* std::ops::{Add, Sub, Mul, Div} on f64 never panic.
F64Op(op, a, b) ==
    CASE op = "add" -> Some(FAdd(a, b))
      [] op = "sub" -> Some(FSub(a, b))
      [] op = "mul" -> Some(FMul(a, b))
      [] op = "div" -> Some(FDiv(a, b))

(***************************************************************************)
(* Scalars and arrays of the array library, and ColumnarValue.             *)
(* A scalar is its data type and an Option value; NullScalar has the Null  *)
(* type and no value.  An array is its data type, its value buffer and an  *)
(* Option validity bitmap.                                                 *)
(***************************************************************************)
Scalar(ty, v) == [variant |-> "Scalar", ty |-> ty, value |-> v]
Array(ty, values, validity) ==
    [variant |-> "Array", ty |-> ty, values |-> values, validity |-> validity]

NullScalarNew == Scalar("Null", None)
BooleanScalarNew(v) == Scalar("Boolean", v)

IsNumeric(ty) == ty \in {"Int32", "Float64"}

\* The native operation of the element type: None when it panics.
NativeOp(ty, op, a, b) ==
    IF ty = "Int32" THEN I32Op(op, a, b) ELSE F64Op(op, a, b)

\* == on two elements of one type.
ElemEq(ty, a, b) == IF ty = "Float64" THEN FEq(a, b) ELSE a = b

\* The value a new_null array keeps under its (invalid) slots.
ZeroOf(ty) ==
    CASE ty = "Int32" -> 0
      [] ty = "Float64" -> F64(0)
      [] ty = "Boolean" -> FALSE
      [] OTHER -> ""

ArrLen(a) == Len(a.values)
ValidAt(a, i) == IF IsSome(a.validity) THEN Unwrap(a.validity)[i] ELSE TRUE

\* Bitmap & Bitmap (std::ops::BitAnd): the lengths are equal.
BitAnd(m1, m2) == [i \in 1..Len(m1) |-> m1[i] /\ m2[i]]

\* The validity of a binary kernel's output.
CombineValidity(l, r) ==
    IF IsSome(l.validity) /\ IsSome(r.validity)
    THEN Some(BitAnd(Unwrap(l.validity), Unwrap(r.validity)))
    ELSE IF IsSome(l.validity) THEN l.validity
    ELSE r.validity

(***************************************************************************)
(* The kernels of the array library, as the nodes call them.  They return  *)
(* the array itself, not a Result: on operands they do not support         *)
(* (different or non-numeric types, different lengths) and when the native *)
(* operation of an element panics, they panic (None here).                 *)
(***************************************************************************)
AllSome(outs) == \A i \in 1..Len(outs) : IsSome(outs[i])
Unwrapped(outs) == [i \in 1..Len(outs) |-> Unwrap(outs[i])]
AllFalse(n) == [i \in 1..n |-> FALSE]

\* compute::arithmetics::{add, sub, mul, div}(lhs, rhs)
Arithmetics(op, lhs, rhs) ==
    IF lhs.ty # rhs.ty \/ ~IsNumeric(lhs.ty) \/ ArrLen(lhs) # ArrLen(rhs)
    THEN None
    ELSE LET outs == [i \in 1..ArrLen(lhs) |->
                         NativeOp(lhs.ty, op, lhs.values[i], rhs.values[i])]
         IN IF AllSome(outs)
            THEN Some(Array(lhs.ty, Unwrapped(outs), CombineValidity(lhs, rhs)))
            ELSE None

\* compute::arithmetics::{add_scalar, sub_scalar, mul_scalar, div_scalar}(lhs, rhs):
\* lhs[i] op rhs at every row; a null rhs gives an all-null array.
ArithmeticsScalar(op, lhs, rhs) ==
    IF lhs.ty # rhs.ty \/ ~IsNumeric(lhs.ty)
    THEN None
    ELSE IF ~IsSome(rhs.value)
    THEN Some(Array(lhs.ty, [i \in 1..ArrLen(lhs) |-> ZeroOf(lhs.ty)],
                    Some(AllFalse(ArrLen(lhs)))))
    ELSE LET outs == [i \in 1..ArrLen(lhs) |->
                         NativeOp(lhs.ty, op, lhs.values[i], Unwrap(rhs.value))]
         IN IF AllSome(outs)
            THEN Some(Array(lhs.ty, Unwrapped(outs), lhs.validity))
            ELSE None

\* compute::comparison::{eq, neq}(lhs, rhs)
Comparison(name, lhs, rhs) ==
    IF lhs.ty # rhs.ty \/ ArrLen(lhs) # ArrLen(rhs)
    THEN None
    ELSE Some(Array("Boolean",
                    [i \in 1..ArrLen(lhs) |->
                        (name = "eq") = ElemEq(lhs.ty, lhs.values[i], rhs.values[i])],
                    CombineValidity(lhs, rhs)))

\* compute::comparison::{eq_scalar, neq_scalar}(lhs, rhs)
ComparisonScalar(name, lhs, rhs) ==
    IF lhs.ty # rhs.ty
    THEN None
    ELSE IF ~IsSome(rhs.value)
    THEN Some(Array("Boolean", AllFalse(ArrLen(lhs)), Some(AllFalse(ArrLen(lhs)))))
    ELSE Some(Array("Boolean",
                    [i \in 1..ArrLen(lhs) |->
                        (name = "eq") = ElemEq(lhs.ty, lhs.values[i], Unwrap(rhs.value))],
                    lhs.validity))

\* PartialEq of dyn Scalar (left.eq(&*right), left.ne(&*right)): equal data
\* types and equal Option values.
ScalarEq(left, right) ==
    /\ left.ty = right.ty
    /\ IsSome(left.value) = IsSome(right.value)
    /\ IsSome(left.value) => ElemEq(left.ty, Unwrap(left.value), Unwrap(right.value))

\* An array out of a kernel, or its panic.
OkArray(k) == IF IsSome(k) THEN Ok(Unwrap(k)) ELSE Panic

(***************************************************************************)
(* booleanBinaryExpression!: EqExpression and NeqExpression.               *)
(* name is the kernel family and the scalar operator: "eq" or "neq".       *)
(***************************************************************************)
SameLenMissing(left, right) == TRUE
SameLen(left, right) == ArrLen(left) = ArrLen(right)

BoolArrayArrayArm(name, left, right) ==
    IF SameLen(left, right)
    THEN OkArray(Comparison(name, left, right))
    ELSE Err("DifferentSizes")

BoolArrayScalarArm(name, left, right) ==
    OkArray(ComparisonScalar(name, left, right))

BoolScalarArrayArmOtherKernel(name, left, right) ==
    OkArray(ComparisonScalar(IF name = "eq" THEN "neq" ELSE "eq", right, left))
BoolScalarArrayArm(name, left, right) ==
    OkArray(ComparisonScalar(name, right, left))

BoolScalarScalarArmAsArray(name, left, right) ==
    Ok(Array("Boolean", <<(name = "eq") = ScalarEq(left, right)>>, None))
BoolScalarScalarArm(name, left, right) ==
    Ok(BooleanScalarNew(Some((name = "eq") = ScalarEq(left, right))))

\* evaluate, from the results l and r of the two children on.
BooleanBinaryEvaluate(name, l, r) ==
    IF ~IsOk(l) THEN l
    ELSE IF ~IsOk(r) THEN r
    ELSE CASE l.val.variant = "Array" /\ r.val.variant = "Array" ->
                  BoolArrayArrayArm(name, l.val, r.val)
           [] l.val.variant = "Array" /\ r.val.variant = "Scalar" ->
                  BoolArrayScalarArm(name, l.val, r.val)
           [] l.val.variant = "Scalar" /\ r.val.variant = "Array" ->
                  BoolScalarArrayArm(name, l.val, r.val)
           [] l.val.variant = "Scalar" /\ r.val.variant = "Scalar" ->
                  BoolScalarScalarArm(name, l.val, r.val)

(***************************************************************************)
(* mathExpression!: AddExpression, SubExpression, MulExpression and        *)
(* DivExpression.  op is "add", "sub", "mul" or "div".                     *)
(***************************************************************************)
MathArrayArrayArm(op, left, right) ==
    IF SameLen(left, right)
    THEN OkArray(Arithmetics(op, left, right))
    ELSE Err("DifferentSizes")

MathArrayScalarArm(op, left, right) ==
    OkArray(ArithmeticsScalar(op, left, right))

MathScalarArrayArm(op, left, right) ==
    OkArray(ArithmeticsScalar(op, right, left))

\* as_any().downcast_ref::<PrimitiveScalar<T>>()
Downcast(scalar, ty) == IF scalar.ty = ty THEN Some(scalar) ELSE None

\* The two patterns of the match on the pair of physical types.
IsPairOfLeftOnly(ty, lty, rty) == lty = ty
IsPairOf(ty, lty, rty) == lty = ty /\ rty = ty

\* One typed arm: both downcasts, then the operation under the Options.
MathTypedArm(ty, op, left, right) ==
    IF ~IsSome(Downcast(left, ty)) \/ ~IsSome(Downcast(right, ty))
    THEN Err("DowncastError")
    ELSE IF IsSome(left.value) /\ IsSome(right.value)
    THEN LET out == NativeOp(ty, op, Unwrap(left.value), Unwrap(right.value))
         IN IF IsSome(out) THEN Ok(Scalar(ty, out)) ELSE Panic
    ELSE Ok(Scalar(ty, None))

MathScalarScalarArm(op, left, right) ==
    IF IsPairOf("Float64", left.ty, right.ty)
    THEN MathTypedArm("Float64", op, left, right)
    ELSE IF IsPairOf("Int32", left.ty, right.ty)
    THEN MathTypedArm("Int32", op, left, right)
    ELSE Err("PrimitiveTypeNotSuported")

MathEvaluate(op, l, r) ==
    IF ~IsOk(l) THEN l
    ELSE IF ~IsOk(r) THEN r
    ELSE CASE l.val.variant = "Array" /\ r.val.variant = "Array" ->
                  MathArrayArrayArm(op, l.val, r.val)
           [] l.val.variant = "Array" /\ r.val.variant = "Scalar" ->
                  MathArrayScalarArm(op, l.val, r.val)
           [] l.val.variant = "Scalar" /\ r.val.variant = "Array" ->
                  MathScalarArrayArm(op, l.val, r.val)
           [] l.val.variant = "Scalar" /\ r.val.variant = "Scalar" ->
                  MathScalarScalarArm(op, l.val, r.val)

\* The six instantiations of the two macros.
EqExpression(l, r) == BooleanBinaryEvaluate("eq", l, r)
NeqExpression(l, r) == BooleanBinaryEvaluate("neq", l, r)
AddExpression(l, r) == MathEvaluate("add", l, r)
SubExpression(l, r) == MathEvaluate("sub", l, r)
MulExpression(l, r) == MathEvaluate("mul", l, r)
DivExpression(l, r) == MathEvaluate("div", l, r)

(***************************************************************************)
(* SpecNode: one binary node applied to the results of its two children.   *)
(* The children are any PhysicalExpression (the nodes are generic in E),   *)
(* so their results are drawn from every shape a child can return.         *)
(***************************************************************************)
MaxLen == 2     \* the longest array a child returns

I32Scalars == {I32Min, -1, 0, 1, 5, I32Max}
F64Scalars == {F64(0), FNeg(F64(0)), F64(1), F64(-2), FFin(FALSE, 1, 2), FNaN, FInf(FALSE)}
I32Elems == {5, 10, 20}
F64Elems == {F64(1), F64(2)}
Utf8Elems == {"a", "b"}

SeqsUpTo(S, n) == UNION {[1..k -> S] : k \in 0..n}
Validities(n) == {None} \cup {Some(m) : m \in [1..n -> BOOLEAN]}

ArraysOf(ty, elems, n) ==
    {Array(ty, vs, None) : vs \in SeqsUpTo(elems, n)}
MaskedArraysOf(ty, elems, n) ==
    UNION {{Array(ty, vs, v) : v \in Validities(Len(vs))} : vs \in SeqsUpTo(elems, n)}

\* The shapes of a child's result; the values of one shape are of one type.
ChildShapes ==
    {"Int32Scalar", "Float64Scalar", "Utf8Scalar", "BooleanScalar", "NullScalar",
     "Int32Array", "Float64Array", "Utf8Array", "BooleanArray", "Err"}

ChildResults(shape) ==
    CASE shape = "Int32Scalar" ->
             {Ok(Scalar("Int32", v)) : v \in {None} \cup {Some(x) : x \in I32Scalars}}
      [] shape = "Float64Scalar" ->
             {Ok(Scalar("Float64", v)) : v \in {None} \cup {Some(x) : x \in F64Scalars}}
      [] shape = "Utf8Scalar" ->
             {Ok(Scalar("Utf8", v)) : v \in {None} \cup {Some(x) : x \in Utf8Elems}}
      [] shape = "BooleanScalar" ->
             {Ok(Scalar("Boolean", v)) : v \in {None} \cup {Some(x) : x \in BOOLEAN}}
      [] shape = "NullScalar" -> {Ok(NullScalarNew)}
      [] shape = "Int32Array" ->
             {Ok(a) : a \in MaskedArraysOf("Int32", I32Elems, MaxLen)}
      [] shape = "Float64Array" ->
             {Ok(a) : a \in MaskedArraysOf("Float64", F64Elems, MaxLen)}
      [] shape = "Utf8Array" ->
             {Ok(a) : a \in ArraysOf("Utf8", Utf8Elems, MaxLen)}
      [] shape = "BooleanArray" ->
             {Ok(a) : a \in ArraysOf("Boolean", BOOLEAN, MaxLen)}
      [] shape = "Err" -> {Err("PrimitiveTypeNotSuported")}

AccIdle == [state |-> "none"]
LogIdle == [n |-> 0, shape |-> "none", seenI |-> {}, seenF |-> {},
            allOk |-> TRUE, last |-> Idle,
            cand |-> Idle]
ExprIdle == [kind |-> "none"]

InitNode ==
    /\ build \in {"debug", "release"}
    /\ \E ls \in ChildShapes, rs \in ChildShapes :
           \E l \in ChildResults(ls), r \in ChildResults(rs) :
               call = [node |-> "none", l |-> l, r |-> r]
    /\ result = Idle
    /\ acc = AccIdle
    /\ log = LogIdle
    /\ final = Idle
    /\ expr = ExprIdle
    /\ steps = 0
    /\ value = Idle

NodeDone(node, res) ==
    /\ call.node = "none"
    /\ call' = [call EXCEPT !.node = node]
    /\ result' = res
    /\ UNCHANGED <<build, acc, log, final, expr, steps, value>>

EvaluateEq == NodeDone("Eq", EqExpression(call.l, call.r))
EvaluateNeq == NodeDone("Neq", NeqExpression(call.l, call.r))
EvaluateAdd == NodeDone("Add", AddExpression(call.l, call.r))
EvaluateSub == NodeDone("Sub", SubExpression(call.l, call.r))
EvaluateMul == NodeDone("Mul", MulExpression(call.l, call.r))
EvaluateDiv == NodeDone("Div", DivExpression(call.l, call.r))

NextNode ==
    \/ EvaluateEq
    \/ EvaluateNeq
    \/ EvaluateAdd
    \/ EvaluateSub
    \/ EvaluateMul
    \/ EvaluateDiv

SpecNode == InitNode /\ [][NextNode]_vars

(***************************************************************************)
(* Properties of one node (SpecNode).                                      *)
(***************************************************************************)
Evaluated == call.node # "none"
IsMathNode == call.node \in {"Add", "Sub", "Mul", "Div"}
IsBoolNode == call.node \in {"Eq", "Neq"}
OpOf(node) ==
    CASE node = "Add" -> "add"
      [] node = "Sub" -> "sub"
      [] node = "Mul" -> "mul"
      [] node = "Div" -> "div"
      [] node = "Eq" -> "eq"
      [] node = "Neq" -> "neq"
IsErrOf(r, e) == IsErr(r) /\ r.err = e
BothOk == IsOk(call.l) /\ IsOk(call.r)
ArrayArray == BothOk /\ call.l.val.variant = "Array" /\ call.r.val.variant = "Array"
ScalarArray == BothOk /\ call.l.val.variant = "Scalar" /\ call.r.val.variant = "Array"
ArrayScalar == BothOk /\ call.l.val.variant = "Array" /\ call.r.val.variant = "Scalar"
ScalarScalar == BothOk /\ call.l.val.variant = "Scalar" /\ call.r.val.variant = "Scalar"
SameTypes == call.l.val.ty = call.r.val.ty

\* C2: for Sub and Div with a non-null Scalar S on the left and an Array A
\* of the same numeric type on the right, a successful evaluation returns
\* the array holding S op A[i] at every row i.
C2_ScalarKeepsLeftPosition ==
    (/\ Evaluated
     /\ call.node \in {"Sub", "Div"}
     /\ ScalarArray
     /\ SameTypes
     /\ IsNumeric(call.l.val.ty)
     /\ IsSome(call.l.val.value)
     /\ IsOk(result))
    => /\ result.val.variant = "Array"
       /\ ArrLen(result.val) = ArrLen(call.r.val)
       /\ \A i \in 1..ArrLen(call.r.val) :
              LET want == NativeOp(call.l.val.ty, OpOf(call.node),
                                   Unwrap(call.l.val.value), call.r.val.values[i])
              IN IsSome(want) => result.val.values[i] = Unwrap(want)

\* C4: every binary node whose children both return Arrays returns
\* Err(DifferentSizes), and so no value, when the lengths differ, and does not
\* return DifferentSizes when they are equal.
C4_LengthMismatchFails ==
    (Evaluated /\ ArrayArray)
    => IF ArrLen(call.l.val) # ArrLen(call.r.val)
       THEN IsErrOf(result, "DifferentSizes")
       ELSE ~IsErrOf(result, "DifferentSizes")

\* C4 witness: a Div node was evaluated on arrays of lengths 1 and 2 and
\* returned DifferentSizes.
C4_Witness ==
    /\ call.node = "Div"
    /\ ArrayArray
    /\ ArrLen(call.l.val) = 1
    /\ ArrLen(call.r.val) = 2
    /\ IsErrOf(result, "DifferentSizes")

\* C5: evaluating an arithmetic node on two Int32 scalars always returns,
\* Ok(value) or a typed Err: it never aborts, also not for Div by 0 and for
\* an Add, Sub or Mul that leaves the 32-bit range.
C5_NeverAborts ==
    (/\ Evaluated
     /\ IsMathNode
     /\ ScalarScalar
     /\ call.l.val.ty = "Int32"
     /\ call.r.val.ty = "Int32")
    => result.tag \in {"Ok", "Err"}

\* C6: an arithmetic node on two scalars of one numeric type returns Ok of a
\* Scalar of that type: null when either operand is null, left op right when
\* both are non-null.
C6_ScalarArithmetic ==
    (/\ Evaluated
     /\ IsMathNode
     /\ ScalarScalar
     /\ SameTypes
     /\ IsNumeric(call.l.val.ty))
    => /\ IsOk(result)
       /\ result.val.variant = "Scalar"
       /\ result.val.ty = call.l.val.ty
       /\ IF IsSome(call.l.val.value) /\ IsSome(call.r.val.value)
          THEN /\ IsSome(result.val.value)
               /\ result.val.value =
                      NativeOp(call.l.val.ty, OpOf(call.node),
                               Unwrap(call.l.val.value), Unwrap(call.r.val.value))
          ELSE ~IsSome(result.val.value)

\* C7: an arithmetic node on two Scalars whose pair of physical types is
\* neither (Int32, Int32) nor (Float64, Float64) returns
\* Err(PrimitiveTypeNotSuported).
C7_UnsupportedScalarPair ==
    (/\ Evaluated
     /\ IsMathNode
     /\ ScalarScalar
     /\ ~(SameTypes /\ IsNumeric(call.l.val.ty)))
    => IsErrOf(result, "PrimitiveTypeNotSuported")

\* C7 witness: an arithmetic node was evaluated on a Float64 and an Int32
\* scalar and returned the error.
C7_Witness ==
    /\ Evaluated
    /\ IsMathNode
    /\ ScalarScalar
    /\ call.l.val.ty = "Float64"
    /\ call.r.val.ty = "Int32"
    /\ IsErrOf(result, "PrimitiveTypeNotSuported")

\* evaluate of the node that was called, on any two child results.
NodeEvaluate(node, l, r) ==
    IF node \in {"Eq", "Neq"}
    THEN BooleanBinaryEvaluate(OpOf(node), l, r)
    ELSE MathEvaluate(OpOf(node), l, r)

\* C8: for Eq and Neq, an array A and a scalar S of one physical type give,
\* in the order (A, S) and in the order (S, A), boolean arrays of length
\* len(A) that are equal at every row.
C8_BroadcastSymmetry ==
    (/\ Evaluated
     /\ IsBoolNode
     /\ ArrayScalar \/ ScalarArray
     /\ SameTypes)
    => LET A == IF ArrayScalar THEN call.l.val ELSE call.r.val
           swapped == NodeEvaluate(call.node, call.r, call.l)
       IN /\ IsOk(result)
          /\ IsOk(swapped)
          /\ result.val.variant = "Array"
          /\ swapped.val.variant = "Array"
          /\ result.val.ty = "Boolean"
          /\ swapped.val.ty = "Boolean"
          /\ ArrLen(result.val) = ArrLen(A)
          /\ ArrLen(swapped.val) = ArrLen(A)
          /\ \A i \in 1..ArrLen(A) :
                 /\ result.val.values[i] = swapped.val.values[i]
                 /\ ValidAt(result.val, i) = ValidAt(swapped.val, i)

\* C8 witness: Eq was evaluated with the scalar on the left and a two-row
\* array on the right, and the rows compare differently.
C8_Witness ==
    /\ call.node = "Eq"
    /\ ScalarArray
    /\ SameTypes
    /\ IsOk(result)
    /\ result.val.values = <<TRUE, FALSE>>

(***************************************************************************)
(* aggregateExpression!: MaxAccumulator and MinAccumulator.                *)
(* kind is "Max" (kernel max, predicate gt) or "Min" (kernel min, lt).     *)
(***************************************************************************)
\* gt / lt of the element type (PartialOrd).
Precedes(kind, ty, a, b) ==
    CASE ty = "Int32" -> IF kind = "Max" THEN a > b ELSE a < b
      [] ty = "Float64" -> IF kind = "Max" THEN FGt(a, b) ELSE FLt(a, b)
      [] ty = "Boolean" -> IF kind = "Max" THEN a /\ ~b ELSE ~a /\ b

\* compute::aggregate::{max, min}(array): the best of the valid rows, a null
\* scalar when no row is valid.  (Int32, Float64 without NaN, Boolean.)
AggregateKernel(kind, array) ==
    LET rows == {i \in 1..ArrLen(array) : ValidAt(array, i)}
        best == CHOOSE i \in rows :
                    \A j \in rows :
                        ~Precedes(kind, array.ty, array.values[j], array.values[i])
    IN IF rows = {} THEN Ok(Scalar(array.ty, None))
       ELSE Ok(Scalar(array.ty, Some(array.values[best])))

\* The match on (expr.validity(), validity); val1.bitand(val2) panics when
\* the two bitmaps differ in length.
CombinedValidity(own, validity) ==
    IF IsSome(own) /\ IsSome(validity)
    THEN (IF Len(Unwrap(own)) = Len(Unwrap(validity))
          THEN Ok(Some(BitAnd(Unwrap(own), Unwrap(validity))))
          ELSE Panic)
    ELSE IF IsSome(own) THEN Ok(own)
    ELSE IF IsSome(validity) THEN Ok(validity)
    ELSE Ok(None)

\* The Array arm: with_validity (it panics on a bitmap of another length),
\* then the kernel, its error mapped to ArrowError.
ArrayCandidate(kind, array, validity) ==
    LET val == CombinedValidity(array.validity, validity)
    IN IF ~IsOk(val) THEN Panic
       ELSE IF IsSome(val.val) /\ Len(Unwrap(val.val)) # ArrLen(array) THEN Panic
       ELSE AggregateKernel(kind, [array EXCEPT !.validity = val.val])

\* The Scalar arm: a clone of a Float64 or Int32 scalar.
ScalarCandidate(scalar) ==
    IF scalar.ty = "Float64"
    THEN (IF IsSome(Downcast(scalar, "Float64")) THEN Ok(scalar) ELSE Err("DowncastError"))
    ELSE IF scalar.ty = "Int32"
    THEN (IF IsSome(Downcast(scalar, "Int32")) THEN Ok(scalar) ELSE Err("DowncastError"))
    ELSE Err("PhysicalTypeNotSuported")

\* let new = match expr { ... }?
Candidate(kind, e, validity) ==
    IF e.variant = "Array"
    THEN ArrayCandidate(kind, e, validity)
    ELSE ScalarCandidate(e)

\* let bool = match (new type, self.value type) { ... }?
ShouldReplace(kind, new, stored) ==
    IF (new.ty = "Float64" /\ stored.ty = "Float64")
       \/ (new.ty = "Int32" /\ stored.ty = "Int32")
    THEN IF ~IsSome(Downcast(new, new.ty)) \/ ~IsSome(Downcast(stored, new.ty))
         THEN Err("DowncastError")
         ELSE IF IsSome(new.value) /\ IsSome(stored.value)
         THEN Ok(Precedes(kind, new.ty, Unwrap(new.value), Unwrap(stored.value)))
         ELSE Err("DowncastError")
    ELSE Err("PrimitiveTypeNotSuported")

\* accumulate: what it returns and the value it leaves in self.value.
\* input[self.index] panics when the index is out of range.
accumulate_assign_first(self, input, validity) ==
    IF self.index + 1 > Len(input)
    THEN [ret |-> Panic, value |-> self.value]
    ELSE LET new == Candidate(self.kind, input[self.index + 1], validity)
         IN IF ~IsOk(new)
            THEN [ret |-> new, value |-> self.value]
            ELSE LET bool == ShouldReplace(self.kind, new.val, self.value)
                 IN IF ~IsOk(bool)
                    THEN [ret |-> bool, value |-> new.val]
                    ELSE [ret |-> Ok("unit"), value |-> new.val]

accumulate(self, input, validity) ==
    IF self.index + 1 > Len(input)
    THEN [ret |-> Panic, value |-> self.value]
    ELSE LET new == Candidate(self.kind, input[self.index + 1], validity)
         IN IF ~IsOk(new)
            THEN [ret |-> new, value |-> self.value]
            ELSE LET bool == ShouldReplace(self.kind, new.val, self.value)
                 IN IF ~IsOk(bool)
                    THEN [ret |-> bool, value |-> self.value]
                    ELSE [ret |-> Ok("unit"),
                          value |-> IF bool.val THEN new.val ELSE self.value]

final_value(self) == Ok(self.value)

create_accumulator_typed_null(kind, index) ==
    [state |-> "live", kind |-> kind, value |-> Scalar("Int32", None), index |-> index]
create_accumulator(kind, index) ==
    [state |-> "live", kind |-> kind, value |-> NullScalarNew, index |-> index]

(***************************************************************************)
(* Spec: the life of one accumulator.                                      *)
(***************************************************************************)
MaxCalls == 2   \* accumulate calls on the accumulator
MaxRows == 2    \* the longest array given to accumulate
MaxIndex == 1   \* the largest column index an accumulator is created for

AccI32 == {2, 3, 7}
AccF64 == {F64(1), F64(2)}

AccShapes ==
    {"Int32Scalar", "Float64Scalar", "Utf8Scalar", "BooleanScalar", "NullScalar",
     "Int32Array", "Float64Array", "BooleanArray"}

AccValues(shape) ==
    CASE shape = "Int32Scalar" ->
             {Scalar("Int32", v) : v \in {None} \cup {Some(x) : x \in AccI32}}
      [] shape = "Float64Scalar" ->
             {Scalar("Float64", v) : v \in {None} \cup {Some(x) : x \in AccF64}}
      [] shape = "Utf8Scalar" -> {Scalar("Utf8", Some("a"))}
      [] shape = "BooleanScalar" -> {Scalar("Boolean", Some(TRUE))}
      [] shape = "NullScalar" -> {NullScalarNew}
      [] shape = "Int32Array" -> MaskedArraysOf("Int32", AccI32, MaxRows)
      [] shape = "Float64Array" -> ArraysOf("Float64", AccF64, MaxRows)
      [] shape = "BooleanArray" -> ArraysOf("Boolean", BOOLEAN, MaxRows)

\* The caller's masks for a value: none, one bit per row, or (for an array)
\* a bitmap one bit too long.
AccMasks(e) ==
    IF e.variant = "Scalar" THEN {None}
    ELSE Validities(ArrLen(e)) \cup {Some([i \in 1..(ArrLen(e) + 1) |-> TRUE])}

\* The input vectors that carry e: in column 0, or in column 1.
AccInputs(e) == {<<e>>, <<Scalar("Utf8", Some("a")), e>>}

\* What the claims speak of, read off the inputs alone: the kind of a call's
\* candidate and the values of the rows that count.
RowCounts(array, validity, i) ==
    /\ IsSome(array.validity) => Unwrap(array.validity)[i]
    /\ IsSome(validity) => Unwrap(validity)[i]

WellFormed(array, validity) ==
    IsSome(validity) => Len(Unwrap(validity)) = ArrLen(array)

Counting(e, validity) ==
    IF e.variant = "Scalar"
    THEN (IF IsSome(e.value) THEN {Unwrap(e.value)} ELSE {})
    ELSE {e.values[i] : i \in {j \in 1..ArrLen(e) : RowCounts(e, validity, j)}}

CallShape(e, validity) ==
    IF e.variant = "Scalar"
    THEN (IF IsNumeric(e.ty) /\ IsSome(e.value)
          THEN (IF e.ty = "Int32" THEN "Int32Scalars" ELSE "Float64Scalars")
          ELSE "other")
    ELSE IF e.ty = "Int32" /\ WellFormed(e, validity) /\ Counting(e, validity) # {}
    THEN "Int32Arrays"
    ELSE "other"

Logged(e, validity, new, ret) ==
    LET shape == CallShape(e, validity)
    IN [n |-> log.n + 1,
        shape |-> IF log.n = 0 \/ log.shape = shape THEN shape ELSE "other",
        seenI |-> IF e.ty = "Int32" /\ shape # "other"
                  THEN log.seenI \cup Counting(e, validity) ELSE log.seenI,
        seenF |-> IF e.ty = "Float64" /\ shape # "other"
                  THEN log.seenF \cup Counting(e, validity) ELSE log.seenF,
        allOk |-> log.allOk /\ IsOk(ret),
        last |-> ret,
        cand |-> new]

Init ==
    /\ build \in {"debug", "release"}
    /\ acc = AccIdle
    /\ log = LogIdle
    /\ final = Idle
    /\ call = [node |-> "none"]
    /\ result = Idle
    /\ expr = ExprIdle
    /\ steps = 0
    /\ value = Idle

CreateAccumulator ==
    /\ acc.state = "none"
    /\ \E kind \in {"Max", "Min"}, index \in 0..MaxIndex :
           acc' = create_accumulator(kind, index)
    /\ UNCHANGED <<build, log, final, call, result, expr, steps, value>>

\* One accumulate call; after a panic the accumulator is not used again.
Accumulate ==
    /\ acc.state = "live"
    /\ log.n < MaxCalls
    /\ \E shape \in AccShapes :
           \E e \in AccValues(shape) :
               \E validity \in AccMasks(e), input \in AccInputs(e) :
                   LET r == accumulate(acc, input, validity)
                       read == IF acc.index + 1 > Len(input)
                               THEN NullScalarNew ELSE input[acc.index + 1]
                       new == IF acc.index + 1 > Len(input)
                              THEN Idle ELSE Candidate(acc.kind, read, validity)
                   IN /\ acc' = [acc EXCEPT
                                    !.value = r.value,
                                    !.state = IF r.ret.tag = "Panic"
                                              THEN "aborted" ELSE "live"]
                      /\ log' = Logged(read, validity, new, r.ret)
    /\ UNCHANGED <<build, final, call, result, expr, steps, value>>

\* final_value consumes the accumulator.
FinalValue ==
    /\ acc.state = "live"
    /\ final' = final_value(acc)
    /\ acc' = [acc EXCEPT !.state = "consumed"]
    /\ UNCHANGED <<build, log, call, result, expr, steps, value>>

Next ==
    \/ CreateAccumulator
    \/ Accumulate
    \/ FinalValue

Spec == Init /\ [][Next]_vars

(***************************************************************************)
(* Properties of the accumulator (Spec).                                   *)
(***************************************************************************)
\* The scalar final_value returns, or has returned.
Running == IF acc.state = "consumed" THEN final.val ELSE acc.value

\* The maximum (Max) or minimum (Min) of a non-empty set of values.
BestOf(kind, ty, S) ==
    CHOOSE x \in S : \A y \in S : ~Precedes(kind, ty, y, x)

Holds(scalar, ty, v) ==
    /\ scalar.variant = "Scalar"
    /\ scalar.ty = ty
    /\ IsSome(scalar.value)
    /\ Unwrap(scalar.value) = v

\* C1: after a non-empty sequence of accumulate calls whose candidates are
\* all non-null Int32 scalars, or all non-null Float64 scalars, every call
\* has succeeded and final_value returns the maximum (Max) or minimum (Min)
\* of the candidates.
C1_BestOfScalars ==
    (/\ acc.state \in {"live", "consumed"}
     /\ log.n >= 1
     /\ log.shape \in {"Int32Scalars", "Float64Scalars"})
    => /\ log.allOk
       /\ IF log.shape = "Int32Scalars"
          THEN Holds(Running, "Int32", BestOf(acc.kind, "Int32", log.seenI))
          ELSE Holds(Running, "Float64", BestOf(acc.kind, "Float64", log.seenF))

\* C3: after accumulate calls on Int32 arrays with masks, final_value
\* returns the maximum (Max) or minimum (Min) over the rows whose bit is true
\* in the array's own validity and in the caller's mask.
C3_MaskedRowsIgnored ==
    (/\ acc.state \in {"live", "consumed"}
     /\ log.n >= 1
     /\ log.shape = "Int32Arrays")
    => Holds(Running, "Int32", BestOf(acc.kind, "Int32", log.seenI))

\* C10: final_value without a prior accumulate call returns Ok of the
\* Scalar variant holding the null scalar the accumulator was created with.
C10_FinalOfFresh ==
    (acc.state = "consumed" /\ log.n = 0)
    => /\ IsOk(final)
       /\ final.val.variant = "Scalar"
       /\ final.val.ty = "Null"
       /\ ~IsSome(final.val.value)

\* C10 witness: a Min accumulator was consumed before any accumulate call.
C10_Witness ==
    /\ acc.state = "consumed"
    /\ acc.kind = "Min"
    /\ log.n = 0
    /\ IsOk(final)

\* Two scalars are the same scalar: same logical type, same Option payload.
SameScalar(a, b) == a.ty = b.ty /\ a.value = b.value

\* A step of the state machine that is one accumulate call.
AccumulateStep == log'.n = log.n + 1

\* C11: accumulate is all-or-nothing on the accumulator.  A call that returns
\* Err leaves the running value as it was, so final_value returns the same
\* scalar after the call as before it; a call that returns Ok leaves the
\* value unchanged or equal to the candidate computed from input[index]; no
\* call changes the column index.
C11_AccumulateFrame ==
    [][AccumulateStep =>
          /\ acc'.index = acc.index
          /\ IsErr(log'.last) =>
                 /\ SameScalar(acc'.value, acc.value)
                 /\ SameScalar(final_value(acc').val, final_value(acc).val)
          /\ IsOk(log'.last) =>
                 \/ SameScalar(acc'.value, acc.value)
                 \/ IsOk(log'.cand) /\ SameScalar(acc'.value, log'.cand.val)]_vars

\* C11 witness: an accumulate call computed a candidate from input[index],
\* then returned Err, and final_value afterwards returned the null scalar the
\* accumulator held before the call.
C11_Witness ==
    /\ acc.state = "consumed"
    /\ log.n >= 1
    /\ IsErr(log.last)
    /\ IsOk(log.cand)
    /\ IsSome(log.cand.val.value)
    /\ IsOk(final)
    /\ SameScalar(final.val, NullScalarNew)

(***************************************************************************)
(* Expression trees.                                                       *)
(***************************************************************************)
ColumnExpression(index) == [kind |-> "Column", index |-> index]
LiteralBoolExpression(v) == [kind |-> "LiteralBool", value |-> BooleanScalarNew(Some(v))]
LiteralStringExpression(v) == [kind |-> "LiteralString", value |-> Scalar("Utf8", Some(v))]
LiteralIntegerExpression(v) == [kind |-> "LiteralInteger", value |-> Scalar("Int32", Some(v))]
LiteralFloatExpression(v) == [kind |-> "LiteralFloat", value |-> Scalar("Float64", Some(v))]
BinaryNew(kind, left, right) == [kind |-> kind, left |-> left, right |-> right]
AggregateNew(kind, e) == [kind |-> kind, expr |-> e]

LiteralKinds == {"LiteralBool", "LiteralString", "LiteralInteger", "LiteralFloat"}
ComparisonKinds == {"Eq", "Neq"}
ArithmeticKinds == {"Add", "Sub", "Mul", "Div"}
AggregateKinds == {"Max", "Min"}

\* ColumnExpression::evaluate: the column as an Array, an error when the
\* index is out of range or the physical type is not one of the four.
ColumnEvaluate(index, input) ==
    IF index + 1 > Len(input)
    THEN Err("PrimitiveTypeNotSuported")
    ELSE IF input[index + 1].ty \in {"Int32", "Float64", "Utf8", "Boolean"}
    THEN Ok(input[index + 1])
    ELSE Err("PrimitiveTypeNotSuported")

LiteralEvaluate(e) == Ok(e.value)

RECURSIVE Evaluate(_, _)
Evaluate(e, input) ==
    CASE e.kind = "Column" -> ColumnEvaluate(e.index, input)
      [] e.kind \in LiteralKinds -> LiteralEvaluate(e)
      [] e.kind \in ComparisonKinds ->
             BooleanBinaryEvaluate(OpOf(e.kind), Evaluate(e.left, input),
                                   Evaluate(e.right, input))
      [] e.kind \in ArithmeticKinds ->
             MathEvaluate(OpOf(e.kind), Evaluate(e.left, input),
                          Evaluate(e.right, input))
      [] e.kind \in AggregateKinds -> Evaluate(e.expr, input)

(***************************************************************************)
(* SpecTree: a tree is built bottom-up by the constructors and evaluated   *)
(* once on the batch.                                                      *)
(***************************************************************************)
MaxSteps == 2   \* constructor calls on top of the first leaf

\* The batch: an Int32 column and a Utf8 column of two rows.
Batch ==
    <<Array("Int32", <<5, I32Max>>, None), Array("Utf8", <<"a", "b">>, None)>>

FirstLeaves ==
    <<ColumnExpression(0), ColumnExpression(1), ColumnExpression(2),
      LiteralBoolExpression(TRUE), LiteralStringExpression("a"),
      LiteralIntegerExpression(2), LiteralFloatExpression(F64(2))>>
OtherLeaves == <<ColumnExpression(0), LiteralIntegerExpression(2)>>

InitTree ==
    /\ build \in {"debug", "release"}
    /\ \E i \in 1..Len(FirstLeaves) : expr = FirstLeaves[i]
    /\ steps = 0
    /\ value = Idle
    /\ acc = AccIdle
    /\ log = LogIdle
    /\ final = Idle
    /\ call = [node |-> "none"]
    /\ result = Idle

\* A node over the tree so far and a leaf (on either side), or over the
\* tree so far twice.
Grow(kind) ==
    \/ expr' = BinaryNew(kind, expr, expr)
    \/ \E i \in 1..Len(OtherLeaves) :
           \/ expr' = BinaryNew(kind, expr, OtherLeaves[i])
           \/ expr' = BinaryNew(kind, OtherLeaves[i], expr)

Building == value = Idle /\ expr.kind # "none" /\ steps < MaxSteps

NewComparison ==
    /\ Building
    /\ \E kind \in ComparisonKinds : Grow(kind)
    /\ steps' = steps + 1
    /\ UNCHANGED <<build, acc, log, final, call, result, value>>

NewArithmetic ==
    /\ Building
    /\ \E kind \in ArithmeticKinds : Grow(kind)
    /\ steps' = steps + 1
    /\ UNCHANGED <<build, acc, log, final, call, result, value>>

NewAggregate ==
    /\ Building
    /\ \E kind \in AggregateKinds : expr' = AggregateNew(kind, expr)
    /\ steps' = steps + 1
    /\ UNCHANGED <<build, acc, log, final, call, result, value>>

EvaluateTree ==
    /\ value = Idle
    /\ expr.kind # "none"
    /\ value' = Evaluate(expr, Batch)
    /\ UNCHANGED <<build, acc, log, final, call, result, expr, steps>>

NextTree ==
    \/ NewComparison
    \/ NewArithmetic
    \/ NewAggregate
    \/ EvaluateTree

SpecTree == InitTree /\ [][NextTree]_vars

\* The variant the shape of a tree fixes.
RECURSIVE VariantOf(_)
VariantOf(e) ==
    CASE e.kind = "Column" -> "Array"
      [] e.kind \in LiteralKinds -> "Scalar"
      [] e.kind \in ComparisonKinds \cup ArithmeticKinds ->
             IF VariantOf(e.left) = "Scalar" /\ VariantOf(e.right) = "Scalar"
             THEN "Scalar" ELSE "Array"
      [] e.kind \in AggregateKinds -> VariantOf(e.expr)

RECURSIVE HasColumn(_)
HasColumn(e) ==
    CASE e.kind = "Column" -> TRUE
      [] e.kind \in LiteralKinds -> FALSE
      [] e.kind \in ComparisonKinds \cup ArithmeticKinds ->
             HasColumn(e.left) \/ HasColumn(e.right)
      [] e.kind \in AggregateKinds -> HasColumn(e.expr)

\* C9: when evaluate succeeds, the variant of the result is the one the tree
\* fixes: Scalar exactly when the tree holds no column reference, and a
\* comparison of two Scalars is a Boolean Scalar, not an Array.
C9_VariantFixedByTree ==
    IsOk(value)
    => /\ value.val.variant = VariantOf(expr)
       /\ (value.val.variant = "Scalar") = ~HasColumn(expr)
       /\ (expr.kind \in ComparisonKinds /\ ~HasColumn(expr))
              => (value.val.variant = "Scalar" /\ value.val.ty = "Boolean")

\* C9 witness: an Eq over an arithmetic node of literals and a literal was
\* evaluated to a Boolean Scalar.
C9_Witness ==
    /\ expr.kind = "Eq"
    /\ steps = 2
    /\ ~HasColumn(expr)
    /\ IsOk(value)
    /\ value.val.variant = "Scalar"
    /\ value.val.ty = "Boolean"

====
